---- MODULE Spec2Model ----
(***************************************************************************)
(* SlavableAutomationControl (libs/ardour/slavable_automation_control.cc): *)
(* a control whose effective value combines its own raw value with the     *)
(* contributions of the master controls attached to it.                    *)
(*                                                                         *)
(* Doubles are modelled as exact non-negative rationals <<n, d>> in lowest *)
(* terms.  Every handler is one action; the handlers call each other, so   *)
(* they are written as transformers of a record S that holds the mutable   *)
(* part of the program state while a handler runs.                         *)
(***************************************************************************)
EXTENDS Integers, Sequences, FiniteSets, TLC

\* ------------------------------------------------------------------ bounds

\* number of controls; control i may only take masters j > i (the callers
\* keep the master graph acyclic)
NumControls == 3
\* number of operations in one run of the program
MaxOps == 5
\* the threads that call into one control at the same time
NumThreads == 2

Controls == 1..NumControls
Threads == 1..NumThreads

\* ------------------------------------------------------- double arithmetic

RECURSIVE GCD(_, _)
GCD(a, b) == IF b = 0 THEN a ELSE GCD(b, a % b)

Norm(n, d) == IF n = 0 THEN <<0, 1>> ELSE <<n \div GCD(n, d), d \div GCD(n, d)>>

Zero == <<0, 1>>
One == <<1, 1>>
Half == <<1, 2>>
Two == <<2, 1>>

IsZero(a) == a[1] = 0
RMul(a, b) == Norm(a[1] * b[1], a[2] * b[2])
RDiv(a, b) == Norm(a[1] * b[2], a[2] * b[1])
RLe(a, b) == a[1] * b[2] <= b[1] * a[2]
RMax(a, b) == IF RLe(a, b) THEN b ELSE a
RMin(a, b) == IF RLe(a, b) THEN a ELSE b

\* the values a caller sets a continuous control to
Doubles == {Zero, Half, Two}

\* ------------------------------------------------------------------- state

VARIABLES
  kind,          \* per control: "continuous", "toggled", "mute" (a toggled MuteControl),
                 \* or "plain" (a continuous AutomationControl that cannot have masters)
  raw,           \* Control's user value
  masters,       \* _masters: the set of MasterRecords of each control
  playback,      \* whether the control's automation list is in playback
  env,           \* the value of the control's automation list at the transport position
  alive,         \* FALSE once the control has been destroyed
  deleting,      \* _session.deletion_in_progress ()
  masters_node,  \* _masters_node: the stashed "masters" XML node, or NoNode
  master_lock,   \* master_lock of each control
  last,          \* what the last operation was, saw and emitted
  ops,           \* the number of operations so far
  threads        \* per thread: the call it is in, the lock it holds and the record it accesses

vars == <<kind, raw, masters, playback, env, alive, deleting, masters_node, master_lock, last, ops, threads>>

NoNode == <<>>
NoControl == NumControls + 1

\* a thread that is in no call
IdleThread == [pc |-> "idle", op |-> "none", c |-> NoControl, m |-> NoControl, todo |-> <<>>, mode |-> "none", val |-> Zero, old |-> Zero]

toggled(c) == kind[c] \in {"toggled", "mute"}

\* ParameterDescriptor: lower and upper
lower(c) == IF toggled(c) THEN Zero ELSE IF c = 1 THEN Half ELSE Zero
upper(c) == IF toggled(c) THEN One ELSE Two

Unlocked == [readers |-> 0, writer |-> FALSE]

\* the mutable program state as the handlers thread it
NoCounts == [c \in Controls |-> 0]
Cur == [raw |-> raw, masters |-> masters, lock |-> master_lock, node |-> masters_node, changed |-> NoCounts, status |-> NoCounts, hooks |-> NoCounts, sets |-> NoCounts, reentered |-> NoCounts, flips |-> NoCounts, applied |-> NoCounts]

\* ------------------------------------------------------------ master_lock

ReaderLock(S, c) == [S EXCEPT !.lock[c].readers = @ + 1]
ReaderUnlock(S, c) == [S EXCEPT !.lock[c].readers = @ - 1]
WriterLock(S, c) == [S EXCEPT !.lock[c].writer = TRUE]
WriterUnlock(S, c) == [S EXCEPT !.lock[c].writer = FALSE]
\* a read lock is shared: trying for it fails only against a writer
TryReaderLock(S, c) == ~S.lock[c].writer

\* ------------------------------------------------------------ MasterRecord

MasterRecord(m, vc, vm) == [master |-> m, val_ctrl |-> vc, val_master |-> vm, yn |-> FALSE, dropped_connection |-> FALSE, changed_connection |-> FALSE]

\* _masters.find (id)
Found(S, c, m) == {r \in S.masters[c] : r.master = m}
MasterIds(S, c) == {r.master : r \in S.masters[c]}

\* the masters in the order of the map's iteration
RECURSIVE SortedIds(_)
SortedIds(ids) == IF ids = {} THEN <<>> ELSE LET m == CHOOSE x \in ids : \A y \in ids : x <= y IN <<m>> \o SortedIds(ids \ {m})

RecordOf(S, c, m) == CHOOSE r \in S.masters[c] : r.master = m

\* every master reachable from c is still there (MasterRecord::master () asserts it)
RECURSIVE Usable(_, _)
Usable(S, c) == alive[c] /\ \A r \in S.masters[c] : Usable(S, r.master)

\* ------------------------------------------------------------------ values

\* Control::get_double (from_list, frame)
get_double(S, c, from_list) == IF from_list THEN env[c] ELSE S.raw[c]

automation_playback(c) == playback[c]

RECURSIVE get_value(_, _)
RECURSIVE get_value_locked(_, _)
RECURSIVE get_masters_value_locked(_, _)
RECURSIVE master_ratio(_, _)
RECURSIVE RatioProduct(_, _, _)

\* MasterRecord::master_ratio ()
master_ratio(S, r) == IF IsZero(r.val_master) THEN get_value(S, r.master) ELSE RDiv(get_value(S, r.master), r.val_master)

\* the loop of get_masters_value_locked: v *= mr->second.master_ratio ()
RatioProduct(S, recs, v) == IF recs = {} THEN v ELSE LET r == CHOOSE x \in recs : \A y \in recs : x.master <= y.master IN RatioProduct(S, recs \ {r}, RMul(v, master_ratio(S, r)))

\* a bug get_masters_value_locked could have: scaling by the masters' raw values
get_masters_value_locked_raw(S, c) == IF toggled(c) THEN (IF \E r \in S.masters[c] : ~IsZero(S.raw[r.master]) THEN upper(c) ELSE lower(c)) ELSE LET P[recs \in SUBSET S.masters[c]] == IF recs = {} THEN One ELSE LET r == CHOOSE x \in recs : TRUE IN RMul(P[recs \ {r}], IF IsZero(r.val_master) THEN S.raw[r.master] ELSE RDiv(S.raw[r.master], r.val_master)) IN P[S.masters[c]]

get_masters_value_locked(S, c) == IF toggled(c) THEN (IF \E r \in S.masters[c] : ~IsZero(get_value(S, r.master)) THEN upper(c) ELSE lower(c)) ELSE RatioProduct(S, S.masters[c], One)

get_value_locked(S, c) == IF S.masters[c] = {} THEN get_double(S, c, FALSE) ELSE IF toggled(c) /\ ~IsZero(get_double(S, c, FALSE)) THEN upper(c) ELSE RMul(get_double(S, c, FALSE), get_masters_value_locked(S, c))

get_value(S, c) == IF ~automation_playback(c) THEN get_value_locked(S, c) ELSE RMul(get_double(S, c, TRUE), get_masters_value_locked(S, c))

\* ----------------------------------------------------------------- signals

\* the base class's handle_master_change: every change of a master counts
handle_master_change(c, m) == TRUE

update_boolean_masters_records(S, c, m) ==
  IF ~toggled(c) THEN S
  ELSE LET S1 == ReaderLock(S, c)
           S2 == IF Found(S1, c, m) # {}
                 THEN [S1 EXCEPT !.masters[c] = {IF r.master = m THEN [r EXCEPT !.yn = ~IsZero(get_value(S1, m))] ELSE r : r \in @}]
                 ELSE S1
       IN ReaderUnlock(S2, c)

RECURSIVE EmitChanged(_, _)
RECURSIVE NotifySlaves(_, _, _)
RECURSIVE master_changed(_, _, _)

\* c is the slave, m the master whose Changed signal this handler is bound to
master_changed(S, c, m) ==
  IF ~TryReaderLock(S, c) THEN S
  ELSE LET S0 == ReaderLock(S, c)
           send_signal == handle_master_change(c, m)
           S1 == ReaderUnlock(S0, c)
           S2 == [S1 EXCEPT !.reentered[c] = @ + (IF S.lock[c].readers > 0 THEN 1 ELSE 0)]
           S3 == update_boolean_masters_records(S2, c, m)
       IN IF send_signal THEN EmitChanged(S3, c) ELSE S3

\* the handlers bound to m's Changed run one after the other in the emitting thread
NotifySlaves(S, m, slaves) == IF slaves = <<>> THEN S ELSE NotifySlaves(master_changed(S, Head(slaves), m), m, Tail(slaves))

\* m->Changed (): EMIT SIGNAL
EmitChanged(S, m) == NotifySlaves([S EXCEPT !.changed[m] = @ + 1], m, SortedIds({s \in Controls : \E r \in S.masters[s] : r.master = m /\ r.changed_connection}))

\* MasterStatusChange (): EMIT SIGNAL
EmitMasterStatusChange(S, c) == [S EXCEPT !.status[c] = @ + 1]

\* ------------------------------------------------------- the base set path

Clamp(c, v) == RMax(lower(c), RMin(upper(c), v))

\* AutomationControl::actually_set_value: clamps, stores, notifies a change
AutomationControl_actually_set_value(S, c, value) ==
  LET v == Clamp(c, value)
      S1 == [S EXCEPT !.raw[c] = v]
  IN IF v # S.raw[c] THEN EmitChanged(S1, c) ELSE S1

\* AutomationControl::set_double: stores the user value
AutomationControl_set_double(S, c, v) == [S EXCEPT !.raw[c] = v, !.sets[c] = @ + 1]

\* AutomationControl::set_value_unchecked, as boolean_automation_run_locked uses it
set_value_unchecked(S, c, v) == [S EXCEPT !.raw[c] = v]

\* ------------------------------------------------------ actually_set_value

\* a bug actually_set_value could have: scaling the value up instead of down
ScaledValue_multiplied(S, c, value) ==
  IF ~toggled(c) /\ S.masters[c] # {}
  THEN LET masters_value == get_masters_value_locked(WriterLock(S, c), c)
       IN IF IsZero(masters_value) THEN Zero ELSE RMax(lower(c), RMin(upper(c), RMul(value, masters_value)))
  ELSE value

\* the value actually_set_value hands to AutomationControl::actually_set_value
ScaledValue(S, c, value) ==
  IF ~toggled(c) /\ S.masters[c] # {}
  THEN LET masters_value == get_masters_value_locked(WriterLock(S, c), c)
       IN IF IsZero(masters_value) THEN Zero ELSE RMax(lower(c), RMin(upper(c), RDiv(value, masters_value)))
  ELSE value

actually_set_value(S, c, value) == AutomationControl_actually_set_value(S, c, ScaledValue(S, c, value))

\* ------------------------------------------------- add / remove / clear

\* a bug add_master could have: emitting MasterStatusChange whether or not the
\* record was inserted
add_master_always_notifies(S, c, m) ==
  LET master_value == get_value(S, m)
      S1 == WriterLock(S, c)
      newrec == MasterRecord(m, get_value_locked(S1, c), master_value)
      inserted == Found(S1, c, m) = {}
      S2 == IF inserted
            THEN [S1 EXCEPT !.masters[c] = @ \cup {[newrec EXCEPT !.dropped_connection = TRUE, !.changed_connection = TRUE]}]
            ELSE S1
  IN update_boolean_masters_records(EmitMasterStatusChange(WriterUnlock(S2, c), c), c, m)

\* a bug add_master could have: taking the raw values as the snapshots
add_master_raw_snapshots(S, c, m) ==
  LET S1 == WriterLock(S, c)
      newrec == MasterRecord(m, get_double(S1, c, FALSE), get_double(S1, m, FALSE))
      inserted == Found(S1, c, m) = {}
      S2 == IF inserted
            THEN [S1 EXCEPT !.masters[c] = @ \cup {[newrec EXCEPT !.dropped_connection = TRUE, !.changed_connection = TRUE]}]
            ELSE S1
      S3 == WriterUnlock(S2, c)
      S4 == IF inserted THEN EmitMasterStatusChange(S3, c) ELSE S3
  IN update_boolean_masters_records(S4, c, m)

add_master(S, c, m) ==
  LET master_value == get_value(S, m)
      S1 == WriterLock(S, c)
      newrec == MasterRecord(m, get_value_locked(S1, c), master_value)
      inserted == Found(S1, c, m) = {}
      S2 == IF inserted
            THEN [S1 EXCEPT !.masters[c] = @ \cup {[newrec EXCEPT !.dropped_connection = TRUE, !.changed_connection = TRUE]}]
            ELSE S1
      S3 == WriterUnlock(S2, c)
      S4 == IF inserted THEN EmitMasterStatusChange(S3, c) ELSE S3
  IN update_boolean_masters_records(S4, c, m)

pre_remove_master(S, c) == [S EXCEPT !.hooks[c] = @ + 1]

\* a bug remove_master could have: erasing the record without applying its ratio
remove_master_no_rescale(S, c, m) ==
  IF deleting THEN S
  ELSE LET S0 == pre_remove_master(S, c)
           mi == Found(S0, c, m)
       IN IF mi = {} THEN S0 ELSE EmitMasterStatusChange([S0 EXCEPT !.masters[c] = @ \ mi], c)

\* a bug remove_master could have: emitting MasterStatusChange although
\* nothing was erased
remove_master_notifies_unknown(S, c, m) ==
  IF deleting THEN S
  ELSE LET S0 == pre_remove_master(S, c)
           old_val == get_double(S0, c, FALSE)
           mi == Found(S0, c, m)
           new_val == IF mi # {} THEN RMul(old_val, master_ratio(S0, RecordOf(S0, c, m))) ELSE old_val
           S2 == [S0 EXCEPT !.masters[c] = @ \ mi]
           S3 == IF old_val # new_val THEN AutomationControl_set_double(S2, c, new_val) ELSE S2
       IN EmitMasterStatusChange(S3, c)

\* a bug remove_master could have: not looking at deletion_in_progress ()
remove_master_in_teardown(S, c, m) ==
  LET S0 == pre_remove_master(S, c)
      old_val == get_double(S0, c, FALSE)
      mi == Found(S0, c, m)
      new_val == IF mi # {} THEN RMul(old_val, master_ratio(S0, RecordOf(S0, c, m))) ELSE old_val
  IN IF mi = {} THEN S0
     ELSE LET S2 == [S0 EXCEPT !.masters[c] = @ \ mi]
              S3 == IF old_val # new_val THEN AutomationControl_set_double(S2, c, new_val) ELSE S2
          IN EmitMasterStatusChange(S3, c)

remove_master(S, c, m) ==
  IF deleting THEN S
  ELSE LET S0 == pre_remove_master(S, c)
           old_val == get_double(S0, c, FALSE)
           S1 == WriterLock(S0, c)
           mi == Found(S1, c, m)
           new_val == IF mi # {} THEN RMul(old_val, master_ratio(S1, RecordOf(S1, c, m))) ELSE old_val
       IN IF mi = {} THEN WriterUnlock(S1, c)
          ELSE LET S2 == WriterUnlock([S1 EXCEPT !.masters[c] = @ \ mi], c)
                   S3 == IF old_val # new_val THEN AutomationControl_set_double(S2, c, new_val) ELSE S2
               IN EmitMasterStatusChange(S3, c)

\* a bug clear_masters could have: applying one master's ratio only
clear_masters_one_ratio(S, c) ==
  IF deleting THEN S
  ELSE LET old_val == get_double(S, c, FALSE)
           S0 == pre_remove_master(S, c)
       IN IF S0.masters[c] = {} THEN S0
          ELSE LET new_val == RMul(old_val, master_ratio(S0, CHOOSE r \in S0.masters[c] : \A x \in S0.masters[c] : r.master <= x.master))
                   S2 == [S0 EXCEPT !.masters[c] = {}]
                   S3 == IF old_val # new_val THEN AutomationControl_set_double(S2, c, new_val) ELSE S2
               IN EmitMasterStatusChange(S3, c)

clear_masters(S, c) ==
  IF deleting THEN S
  ELSE LET old_val == get_double(S, c, FALSE)
           S0 == pre_remove_master(S, c)
           S1 == WriterLock(S0, c)
       IN IF S1.masters[c] = {} THEN WriterUnlock(S1, c)
          ELSE LET new_val == RMul(old_val, get_masters_value_locked(S1, c))
                   S2 == WriterUnlock([S1 EXCEPT !.masters[c] = {}], c)
                   S3 == IF old_val # new_val THEN AutomationControl_set_double(S2, c, new_val) ELSE S2
               IN EmitMasterStatusChange(S3, c)

\* wm.lock () succeeds while the master is being dropped
master_going_away(S, c, m) == IF alive[m] THEN remove_master(S, c, m) ELSE S

\* ----------------------------------------------------- boolean aggregation

RECURSIVE boolean_automation_run(_, _, _)
RECURSIVE boolean_automation_run_locked(_, _, _)
RECURSIVE RunLoop(_, _, _, _, _)

\* the body of the loop over _masters; valid is the set of controls whose
\* automation list rt_safe_eval () can evaluate in this pass
RunLoop(S, c, ids, valid, rv) ==
  IF ids = <<>> THEN [S |-> S, rv |-> rv]
  ELSE LET ac == Head(ids)
           rest == Tail(ids)
       IN IF ~automation_playback(ac) \/ ~toggled(ac) THEN RunLoop(S, c, rest, valid, rv)
          ELSE LET sub == IF kind[ac] = "mute" THEN boolean_automation_run(S, ac, valid) ELSE [S |-> S, rv |-> FALSE]
                   rv1 == rv \/ sub.rv
                   S1 == sub.S
                   yn == RLe(Half, get_double(S1, ac, TRUE))
               IN IF ac \notin valid THEN RunLoop(S1, c, rest, valid, rv1)
                  ELSE IF RecordOf(S1, c, ac).yn # yn
                       THEN LET rv2 == rv1 \/ handle_master_change(c, ac)
                                S2 == [S1 EXCEPT !.masters[c] = {IF r.master = ac THEN [r EXCEPT !.yn = yn] ELSE r : r \in @}, !.flips[c] = @ + 1]
                                S3 == set_value_unchecked(S2, ac, IF yn THEN One ELSE Zero)
                                S4 == EmitChanged(S3, ac)
                            IN RunLoop(S4, c, rest, valid, rv2)
                       ELSE RunLoop(S1, c, rest, valid, rv1)

boolean_automation_run_locked(S, c, valid) ==
  IF ~toggled(c) THEN [S |-> S, rv |-> FALSE]
  ELSE RunLoop(S, c, SortedIds(MasterIds(S, c)), valid, FALSE)

boolean_automation_run(S, c, valid) ==
  LET r == boolean_automation_run_locked(ReaderLock(S, c), c, valid)
      S1 == ReaderUnlock(r.S, c)
  IN [S |-> IF r.rv THEN EmitChanged(S1, c) ELSE S1, rv |-> r.rv]

\* ---------------------------------------------------- the curve compositor

\* the length of the buffers handed to masters_curve_multiply
BufLen == 2

\* boost::dynamic_pointer_cast<SlavableAutomationControl> succeeds
slavable(c) == kind[c] # "plain"

\* the samples of the curve of c's automation list over the range
CurveOf(c) == [i \in 1..BufLen |-> IF (i + c) % 2 = 0 THEN Half ELSE Two]

\* list ()->curve ().rt_safe_get_vector: whether it succeeded, and the scratch buffer
rt_safe_get_vector(c, active) == [rv |-> c \in active, scratch |-> CurveOf(c)]

\* apply_gain_to_buffer (vec, veclen, gain)
apply_gain_to_buffer(vec, veclen, gain) == [i \in DOMAIN vec |-> IF i <= veclen THEN RMul(vec[i], gain) ELSE vec[i]]

\* vec[i] *= scratch[i] for the first veclen samples
MultiplyByScratch(vec, veclen, scratch) == [i \in DOMAIN vec |-> IF i <= veclen THEN RMul(vec[i], scratch[i]) ELSE vec[i]]

RECURSIVE masters_curve_multiply(_, _, _, _, _, _)
RECURSIVE CurveLoop(_, _, _, _, _, _, _)

\* a bug the loop could have: leaving out the master's scalar ratio
CurveLoop_without_ratio(S, c, ids, active, res, veclen, ndebug) ==
  IF ids = <<>> \/ res.abort # "none" THEN res
  ELSE LET mr == RecordOf(S, c, Head(ids))
       IN IF ~slavable(mr.master)
          THEN [res EXCEPT !.abort = IF ndebug THEN "null pointer" ELSE "assertion"]
          ELSE LET sub == masters_curve_multiply(S, mr.master, active, res.vec, veclen, ndebug)
               IN CurveLoop(S, c, Tail(ids), active, [rv |-> res.rv \/ sub.rv, vec |-> sub.vec, abort |-> sub.abort], veclen, ndebug)

\* the loop over _masters; a master that is no SlavableAutomationControl fails
\* the assertion, or is called through a null pointer when assert is compiled out
CurveLoop(S, c, ids, active, res, veclen, ndebug) ==
  IF ids = <<>> \/ res.abort # "none" THEN res
  ELSE LET mr == RecordOf(S, c, Head(ids))
       IN IF ~slavable(mr.master)
          THEN [res EXCEPT !.abort = IF ndebug THEN "null pointer" ELSE "assertion"]
          ELSE LET sub == masters_curve_multiply(S, mr.master, active, res.vec, veclen, ndebug)
                   vec == apply_gain_to_buffer(sub.vec, veclen, master_ratio(S, mr))
               IN CurveLoop(S, c, Tail(ids), active, [rv |-> res.rv \/ sub.rv, vec |-> IF sub.abort = "none" THEN vec ELSE sub.vec, abort |-> sub.abort], veclen, ndebug)

\* a bug masters_curve_multiply could have: returning its own curve's result
\* whatever the masters' curves do
masters_curve_multiply_own_rv(S, c, active, vec, veclen, ndebug) ==
  LET own == rt_safe_get_vector(c, active)
      vec1 == IF own.rv THEN MultiplyByScratch(vec, veclen, own.scratch) ELSE apply_gain_to_buffer(vec, veclen, get_double(S, c, FALSE))
      res == [rv |-> own.rv, vec |-> vec1, abort |-> "none"]
  IN IF S.masters[c] = {} THEN res
     ELSE [CurveLoop(S, c, SortedIds(MasterIds(S, c)), active, res, veclen, ndebug) EXCEPT !.rv = own.rv]

masters_curve_multiply(S, c, active, vec, veclen, ndebug) ==
  LET own == rt_safe_get_vector(c, active)
      vec1 == IF own.rv THEN MultiplyByScratch(vec, veclen, own.scratch) ELSE apply_gain_to_buffer(vec, veclen, get_double(S, c, FALSE))
      res == [rv |-> own.rv, vec |-> vec1, abort |-> "none"]
  IN IF S.masters[c] = {} THEN res
     ELSE CurveLoop(S, c, SortedIds(MasterIds(S, c)), active, res, veclen, ndebug)


\* XMLNode::set_property / get_property conversions of PBD
BoolToString(b) == IF b THEN "1" ELSE "0"
StringToBool(s) == s = "1"
DoubleToString(v) == <<v[1], "/", v[2]>>
StringToDouble(s) == <<s[1], s[3]>>
IdToString(m) == <<"id", m>>
StringToId(s) == s[2]

\* one <master> child node per record
RECURSIVE MasterNodes(_, _, _)
MasterNodes(S, c, ids) ==
  IF ids = <<>> THEN <<>>
  ELSE LET mr == RecordOf(S, c, Head(ids))
           mnode == IF toggled(c)
                    THEN [name |-> "master", id |-> IdToString(mr.master), yn |-> BoolToString(mr.yn)]
                    ELSE [name |-> "master", id |-> IdToString(mr.master), val_ctrl |-> DoubleToString(mr.val_ctrl), val_master |-> DoubleToString(mr.val_master)]
       IN <<mnode>> \o MasterNodes(S, c, Tail(ids))

\* the children get_state () adds to the control's node
get_state(S, c) ==
  IF S.masters[c] # {}
  THEN <<[name |-> "masters", children |-> MasterNodes(ReaderLock(S, c), c, SortedIds(MasterIds(S, c)))]>>
  ELSE <<>>

\* set_state (): keeps a copy of the last child named "masters"
RECURSIVE set_state(_, _, _)
set_state(S, c, nlist) ==
  IF nlist = <<>> THEN S
  ELSE set_state(IF Head(nlist).name = "masters" THEN [S EXCEPT !.node[c] = Head(nlist)] ELSE S, c, Tail(nlist))

\* a bug MasterRecord::set_state could have: not reading val-master
MasterRecord_set_state_no_val_master(r, n) ==
  [r EXCEPT !.yn = IF "yn" \in DOMAIN n THEN StringToBool(n.yn) ELSE @,
            !.val_ctrl = IF "val_ctrl" \in DOMAIN n THEN StringToDouble(n.val_ctrl) ELSE @]

MasterRecord_set_state(r, n) ==
  [r EXCEPT !.yn = IF "yn" \in DOMAIN n THEN StringToBool(n.yn) ELSE @,
            !.val_ctrl = IF "val_ctrl" \in DOMAIN n THEN StringToDouble(n.val_ctrl) ELSE @,
            !.val_master = IF "val_master" \in DOMAIN n THEN StringToDouble(n.val_master) ELSE @]

RECURSIVE ApplyNodes(_, _, _)
ApplyNodes(S, c, nlist) ==
  IF nlist = <<>> THEN S
  ELSE LET n == Head(nlist)
       IN IF "id" \notin DOMAIN n THEN ApplyNodes(S, c, Tail(nlist))
          ELSE IF Found(S, c, StringToId(n.id)) = {} THEN ApplyNodes(S, c, Tail(nlist))
          ELSE ApplyNodes([S EXCEPT !.masters[c] = {IF r.master = StringToId(n.id) THEN MasterRecord_set_state(r, n) ELSE r : r \in @}, !.applied[c] = @ + 1], c, Tail(nlist))

\* a bug use_saved_master_ratios could have: keeping the node it has applied
use_saved_master_ratios_keeps_node(S, c) ==
  IF S.node[c] = NoNode THEN S
  ELSE ReaderUnlock(ApplyNodes(ReaderLock(S, c), c, S.node[c].children), c)

use_saved_master_ratios(S, c) ==
  IF S.node[c] = NoNode THEN S
  ELSE LET S1 == ApplyNodes(ReaderLock(S, c), c, S.node[c].children)
       IN [ReaderUnlock(S1, c) EXCEPT !.node[c] = NoNode]

\* ----------------------------------------------------------------- actions

NoLast == [op |-> "none", c |-> NoControl, m |-> NoControl, v |-> Zero, passed |-> Zero, doc |-> <<>>, out |-> <<>>, changed |-> NoCounts, status |-> NoCounts, hooks |-> NoCounts, sets |-> NoCounts, reentered |-> NoCounts, flips |-> NoCounts, applied |-> NoCounts]

\* what a handler emitted while it ran
Observed(L, S) == [L EXCEPT !.changed = S.changed, !.status = S.status, !.hooks = S.hooks, !.sets = S.sets, !.reentered = S.reentered, !.flips = S.flips, !.applied = S.applied]

\* one more operation of the run
Tick == ops < MaxOps /\ ops' = ops + 1 /\ UNCHANGED threads

\* the handler has run: S is the state it leaves
Commit(S, L) ==
  /\ raw' = S.raw
  /\ masters' = S.masters
  /\ master_lock' = S.lock
  /\ masters_node' = S.node
  /\ last' = Observed(L, S)

InputValues(c) == IF toggled(c) THEN {Zero, One} ELSE Doubles
EnvValues(c) == IF toggled(c) THEN {Zero, One} ELSE {Half}

SetValue(c, v) ==
  /\ Tick
  /\ Usable(Cur, c)
  /\ Commit(actually_set_value(Cur, c, v), [NoLast EXCEPT !.op = "actually_set_value", !.c = c, !.v = v, !.passed = ScaledValue(Cur, c, v)])
  /\ UNCHANGED <<kind, playback, env, alive, deleting>>

AddMaster(c, m) ==
  /\ Tick
  /\ m > c
  /\ Usable(Cur, c)
  /\ Usable(Cur, m)
  /\ Commit(add_master(Cur, c, m), [NoLast EXCEPT !.op = "add_master", !.c = c, !.m = m])
  /\ UNCHANGED <<kind, playback, env, alive, deleting>>

RemoveMaster(c, m) ==
  /\ Tick
  /\ m > c
  /\ alive[c]
  /\ alive[m]
  /\ deleting \/ Usable(Cur, c)
  /\ Commit(remove_master(Cur, c, m), [NoLast EXCEPT !.op = "remove_master", !.c = c, !.m = m])
  /\ UNCHANGED <<kind, playback, env, alive, deleting>>

ClearMasters(c) ==
  /\ Tick
  /\ alive[c]
  /\ deleting \/ Usable(Cur, c)
  /\ Commit(clear_masters(Cur, c), [NoLast EXCEPT !.op = "clear_masters", !.c = c])
  /\ UNCHANGED <<kind, playback, env, alive, deleting>>

BooleanAutomationRun(c) ==
  /\ Tick
  /\ Usable(Cur, c)
  /\ \E valid \in SUBSET {m \in Controls : m > c /\ playback[m]} :
       Commit(boolean_automation_run(Cur, c, valid).S, [NoLast EXCEPT !.op = "boolean_automation_run", !.c = c])
  /\ UNCHANGED <<kind, playback, env, alive, deleting>>

\* the automation list of c enters or leaves playback, or its value at the
\* transport position changes
SetAutomation(c, pb, e) ==
  /\ Tick
  /\ alive[c]
  /\ <<pb, e>> # <<playback[c], env[c]>>
  /\ ~pb => e = env[c]
  /\ playback' = [playback EXCEPT ![c] = pb]
  /\ env' = [env EXCEPT ![c] = e]
  /\ last' = [NoLast EXCEPT !.op = "automation", !.c = c]
  /\ UNCHANGED <<kind, raw, masters, alive, deleting, masters_node, master_lock>>

GetState(c) ==
  /\ Tick
  /\ Usable(Cur, c)
  /\ last' = [NoLast EXCEPT !.op = "get_state", !.c = c, !.doc = get_state(Cur, c)]
  /\ UNCHANGED <<kind, raw, masters, playback, env, alive, deleting, masters_node, master_lock>>

\* the documents a session file holds for control c: what get_state () wrote
\* when c had the masters ids, with the values of that time
DocValues == {<<Half, Two>>, <<Two, Half>>}
DocRecords(c, m) == IF toggled(c) THEN {[MasterRecord(m, Zero, Zero) EXCEPT !.yn = b] : b \in BOOLEAN} ELSE {MasterRecord(m, v[1], v[2]) : v \in DocValues}
DocRegistries(c, ids) == {reg \in SUBSET UNION {DocRecords(c, m) : m \in ids} : \A m \in ids : Cardinality({r \in reg : r.master = m}) = 1}
\* a document whose one entry has lost its id
DocumentWithoutId(c) ==
  <<[name |-> "masters",
     children |-> <<IF toggled(c) THEN [name |-> "master", yn |-> BoolToString(TRUE)]
                    ELSE [name |-> "master", val_ctrl |-> DoubleToString(Two), val_master |-> DoubleToString(Half)]>>]>>
Documents(c) == {get_state([Cur EXCEPT !.masters[c] = reg], c) : reg \in UNION {DocRegistries(c, ids) : ids \in (SUBSET {m \in Controls : m > c}) \ {{}}}} \cup {DocumentWithoutId(c)}

SetState(c) ==
  /\ Tick
  /\ alive[c]
  /\ \E nlist \in Documents(c) : Commit(set_state(Cur, c, nlist), [NoLast EXCEPT !.op = "set_state", !.c = c, !.doc = nlist])
  /\ UNCHANGED <<kind, playback, env, alive, deleting>>

UseSavedMasterRatios(c) ==
  /\ Tick
  /\ alive[c]
  /\ Commit(use_saved_master_ratios(Cur, c), [NoLast EXCEPT !.op = "use_saved_master_ratios", !.c = c])
  /\ UNCHANGED <<kind, playback, env, alive, deleting>>

\* the session starts to delete itself
BeginDeletion ==
  /\ Tick
  /\ ~deleting
  /\ deleting' = TRUE
  /\ last' = [NoLast EXCEPT !.op = "deletion"]
  /\ UNCHANGED <<kind, raw, masters, playback, env, alive, masters_node, master_lock>>

\* m->DropReferences (): the handler of every slave of m runs, then m is gone
RECURSIVE DropSlaves(_, _, _)
DropSlaves(S, m, slaves) == IF slaves = <<>> THEN S ELSE DropSlaves(master_going_away(S, Head(slaves), m), m, Tail(slaves))

DropReferences(m) ==
  /\ Tick
  /\ alive[m]
  /\ \A s \in Controls : (\E r \in masters[s] : r.master = m) => (deleting \/ Usable(Cur, s))
  /\ LET S1 == DropSlaves(Cur, m, SortedIds({s \in Controls : \E r \in masters[s] : r.master = m /\ r.dropped_connection}))
         S2 == [S1 EXCEPT !.masters[m] = {}, !.node[m] = NoNode]
     IN Commit(S2, [NoLast EXCEPT !.op = "drop_references", !.m = m])
  /\ alive' = [alive EXCEPT ![m] = FALSE]
  /\ UNCHANGED <<kind, playback, env, deleting>>

\* the buffers of a render pass
Buffers == {[i \in 1..BufLen |-> IF i = 1 THEN One ELSE Two]}

\* masters_curve_multiply (start, end, vec, veclen) on control c; active are the
\* controls whose curve evaluation succeeds, ndebug the build
MastersCurveMultiply(c) ==
  /\ Tick
  /\ slavable(c)
  /\ Usable(Cur, c)
  /\ \E active \in SUBSET Controls, vec \in Buffers, veclen \in 1..BufLen, ndebug \in BOOLEAN :
       last' = [NoLast EXCEPT !.op = "masters_curve_multiply", !.c = c,
                              !.out = [active |-> active, vec |-> vec, veclen |-> veclen, res |-> masters_curve_multiply(Cur, c, active, vec, veclen, ndebug)]]
  /\ UNCHANGED <<kind, raw, masters, playback, env, alive, deleting, masters_node, master_lock>>

Kinds == {[c \in Controls |-> "continuous"], [c \in Controls |-> IF c = 2 THEN "mute" ELSE "toggled"]}

Init ==
  /\ kind \in Kinds
  /\ raw = [c \in Controls |-> IF kind[c] = "continuous" THEN One ELSE Zero]
  /\ masters = [c \in Controls |-> {}]
  /\ playback = [c \in Controls |-> FALSE]
  /\ env = [c \in Controls |-> IF kind[c] = "continuous" THEN Half ELSE Zero]
  /\ alive = [c \in Controls |-> TRUE]
  /\ deleting = FALSE
  /\ masters_node = [c \in Controls |-> NoNode]
  /\ master_lock = [c \in Controls |-> Unlocked]
  /\ last = NoLast
  /\ ops = 0
  /\ threads = [t \in Threads |-> IdleThread]

Next ==
  \/ \E c \in Controls : \E v \in InputValues(c) : SetValue(c, v)
  \/ \E c \in Controls, m \in Controls : AddMaster(c, m)
  \/ \E c \in Controls, m \in Controls : RemoveMaster(c, m)
  \/ \E c \in Controls : ClearMasters(c)
  \/ \E c \in Controls : BooleanAutomationRun(c)
  \/ \E c \in Controls : \E pb \in BOOLEAN : \E e \in EnvValues(c) : SetAutomation(c, pb, e)
  \/ \E c \in Controls : GetState(c)
  \/ \E c \in Controls : SetState(c)
  \/ \E c \in Controls : UseSavedMasterRatios(c)
  \/ BeginDeletion
  \/ \E m \in Controls : DropReferences(m)

Spec == Init /\ [][Next]_vars

\* the render path: controls are attached and set, and curves are composed;
\* the controls are continuous, the last one a SlavableAutomationControl or not
CurveKinds == {[c \in Controls |-> "continuous"], [c \in Controls |-> IF c = NumControls THEN "plain" ELSE "continuous"]}

InitCurve ==
  /\ kind \in CurveKinds
  /\ raw = [c \in Controls |-> One]
  /\ masters = [c \in Controls |-> {}]
  /\ playback = [c \in Controls |-> FALSE]
  /\ env = [c \in Controls |-> Half]
  /\ alive = [c \in Controls |-> TRUE]
  /\ deleting = FALSE
  /\ masters_node = [c \in Controls |-> NoNode]
  /\ master_lock = [c \in Controls |-> Unlocked]
  /\ last = NoLast
  /\ ops = 0
  /\ threads = [t \in Threads |-> IdleThread]

NextCurve ==
  \/ \E c \in Controls : \E v \in InputValues(c) : SetValue(c, v)
  \/ \E c \in Controls, m \in Controls : AddMaster(c, m)
  \/ \E c \in Controls : MastersCurveMultiply(c)

SpecCurve == InitCurve /\ [][NextCurve]_vars

\* ----------------------------------------------------------------- threads

\* The calls step by step: a thread takes master_lock of control c as the call
\* does, accesses the records one after the other, each access taking time, and
\* releases the lock.

\* the calls that take a ReaderLock and go through the records
ReaderOps == {"get_boolean_masters", "get_state", "boolean_automation_run", "use_saved_master_ratios"}

\* the masters whose records the call accesses, in the order of the map
RecordsOf(op, c) ==
  SortedIds(CASE op = "boolean_automation_run" -> {m \in MasterIds(Cur, c) : automation_playback(m) /\ toggled(m)}
              [] op = "use_saved_master_ratios" -> {m \in MasterIds(Cur, c) : \E i \in DOMAIN masters_node[c].children : "id" \in DOMAIN masters_node[c].children[i] /\ StringToId(masters_node[c].children[i].id) = m}
              [] OTHER -> MasterIds(Cur, c))

\* whether the call writes the record of m or only reads it
ModeOf(op, c, m) ==
  CASE op \in {"get_boolean_masters", "get_state"} -> "read"
    [] op = "boolean_automation_run" -> IF RecordOf(Cur, c, m).yn # RLe(Half, get_double(Cur, m, TRUE)) THEN "write" ELSE "read"
    [] OTHER -> "write"

\* get_boolean_masters, get_state, boolean_automation_run or
\* use_saved_master_ratios takes the ReaderLock; the session's loading thread
\* alone calls use_saved_master_ratios
BeginReader(t, op, c) ==
  /\ threads[t].pc = "idle"
  /\ alive[c]
  /\ op \in {"get_boolean_masters", "boolean_automation_run"} => toggled(c)
  /\ op = "use_saved_master_ratios" => (masters_node[c] # NoNode /\ \A u \in Threads : threads[u].op # op)
  /\ ~master_lock[c].writer
  /\ master_lock' = ReaderLock(Cur, c).lock
  /\ threads' = [threads EXCEPT ![t] = [IdleThread EXCEPT !.pc = "locked", !.op = op, !.c = c, !.todo = RecordsOf(op, c)]]
  /\ UNCHANGED <<kind, raw, masters, playback, env, alive, deleting, masters_node, last, ops>>

\* update_boolean_masters_records (m) takes the ReaderLock
BeginUpdate(t, c, m) ==
  /\ threads[t].pc = "idle"
  /\ alive[c] /\ alive[m] /\ m > c
  /\ toggled(c)
  /\ ~master_lock[c].writer
  /\ master_lock' = ReaderLock(Cur, c).lock
  /\ threads' = [threads EXCEPT ![t] = [IdleThread EXCEPT !.pc = "locked", !.op = "update_boolean_masters_records", !.c = c,
                                                          !.todo = IF Found(Cur, c, m) # {} THEN <<m>> ELSE <<>>]]
  /\ UNCHANGED <<kind, raw, masters, playback, env, alive, deleting, masters_node, last, ops>>

\* add_master (m) or remove_master (m) takes the WriterLock; remove_master has
\* read the raw value before
BeginWriter(t, op, c, m) ==
  /\ threads[t].pc = "idle"
  /\ op \in {"add_master", "remove_master"}
  /\ alive[c] /\ alive[m] /\ m > c
  /\ ~deleting
  /\ master_lock[c] = Unlocked
  /\ master_lock' = WriterLock(Cur, c).lock
  /\ threads' = [threads EXCEPT ![t] = [IdleThread EXCEPT !.pc = "locked", !.op = op, !.c = c, !.todo = <<m>>, !.val = get_double(Cur, c, FALSE)]]
  /\ UNCHANGED <<kind, raw, masters, playback, env, alive, deleting, masters_node, last, ops>>

\* the thread starts to read or write the next record
BeginAccess(t) ==
  /\ threads[t].pc = "locked"
  /\ threads[t].todo # <<>>
  /\ threads' = [threads EXCEPT ![t].pc = "access", ![t].m = Head(threads[t].todo), ![t].todo = Tail(threads[t].todo),
                                ![t].mode = ModeOf(threads[t].op, threads[t].c, Head(threads[t].todo))]
  /\ UNCHANGED <<kind, raw, masters, playback, env, alive, deleting, masters_node, master_lock, last, ops>>

\* the state after the access of thread t
Accessed(t) ==
  LET op == threads[t].op
      c == threads[t].c
      m == threads[t].m
  IN CASE op = "update_boolean_masters_records" -> [update_boolean_masters_records(Cur, c, m) EXCEPT !.lock = master_lock]
       [] op = "boolean_automation_run" -> RunLoop(Cur, c, <<m>>, Controls, FALSE).S
       [] op = "use_saved_master_ratios" -> LET Names(n) == "id" \in DOMAIN n /\ StringToId(n.id) = m
                                            IN ApplyNodes(Cur, c, SelectSeq(masters_node[c].children, Names))
       [] op = "add_master" -> IF Found(Cur, c, m) # {} THEN Cur
                               ELSE [Cur EXCEPT !.masters[c] = @ \cup {[MasterRecord(m, get_value_locked(Cur, c), get_value(Cur, m)) EXCEPT !.dropped_connection = TRUE, !.changed_connection = TRUE]}]
       [] op = "remove_master" -> [Cur EXCEPT !.masters[c] = @ \ Found(Cur, c, m)]
       [] OTHER -> Cur

\* the access is over
EndAccess(t) ==
  /\ threads[t].pc = "access"
  /\ raw' = Accessed(t).raw
  /\ masters' = Accessed(t).masters
  /\ threads' = [threads EXCEPT ![t].pc = "locked",
                                ![t].val = IF threads[t].op = "remove_master" /\ Found(Cur, threads[t].c, threads[t].m) # {}
                                           THEN RMul(@, master_ratio(Cur, RecordOf(Cur, threads[t].c, threads[t].m))) ELSE @]
  /\ UNCHANGED <<kind, playback, env, alive, deleting, masters_node, master_lock, last, ops>>

\* the call leaves its locked section and returns
Release(t) ==
  /\ threads[t].pc = "locked"
  /\ threads[t].todo = <<>>
  /\ master_lock' = IF threads[t].op \in {"add_master", "remove_master"} THEN WriterUnlock(Cur, threads[t].c).lock ELSE ReaderUnlock(Cur, threads[t].c).lock
  /\ masters_node' = IF threads[t].op = "use_saved_master_ratios" THEN [masters_node EXCEPT ![threads[t].c] = NoNode] ELSE masters_node
  /\ raw' = IF threads[t].op = "remove_master" THEN [raw EXCEPT ![threads[t].c] = threads[t].val] ELSE raw
  /\ threads' = [threads EXCEPT ![t] = IdleThread]
  /\ UNCHANGED <<kind, masters, playback, env, alive, deleting, last, ops>>

\* a toggled control and its toggled masters, the masters in envelope playback;
\* a session file's node for master 2 waits to be applied to control 1
InitThreads ==
  /\ kind = [c \in Controls |-> IF c = 2 THEN "mute" ELSE "toggled"]
  /\ raw = [c \in Controls |-> Zero]
  /\ masters = [c \in Controls |-> {}]
  /\ playback = [c \in Controls |-> c > 1]
  /\ env \in {[c \in Controls |-> e] : e \in {Zero, One}}
  /\ alive = [c \in Controls |-> TRUE]
  /\ deleting = FALSE
  /\ masters_node = [c \in Controls |-> IF c = 1 THEN [name |-> "masters", children |-> <<[name |-> "master", id |-> IdToString(2), yn |-> BoolToString(TRUE)]>>] ELSE NoNode]
  /\ master_lock = [c \in Controls |-> Unlocked]
  /\ last = NoLast
  /\ ops = 0
  /\ threads = [t \in Threads |-> IdleThread]

NextThreads ==
  \/ \E t \in Threads, op \in ReaderOps, c \in Controls : BeginReader(t, op, c)
  \/ \E t \in Threads, c \in Controls, m \in Controls : BeginUpdate(t, c, m)
  \/ \E t \in Threads, op \in {"add_master", "remove_master"}, c \in Controls, m \in Controls : BeginWriter(t, op, c, m)
  \/ \E t \in Threads : BeginAccess(t)
  \/ \E t \in Threads : EndAccess(t)
  \/ \E t \in Threads : Release(t)

SpecThreads == InitThreads /\ [][NextThreads]_vars

\* ------------------------------- detach against get_value and set, by steps

\* remove_master, clear_masters and actually_set_value step by step: each
\* holds master_lock only inside its braces, and reads or stores the user
\* value outside of them.  A window is the time from the first call that
\* begins while no call runs to the moment no call runs again; it keeps the
\* state it began in, the calls it saw and what the last get_value returned.

NoWindow == [open |-> FALSE, raw |-> Zero, masters |-> {}, detaches |-> <<>>, sets |-> <<>>, seen |-> <<>>]

Window(c) == IF last.op = "threads" /\ last.out.open THEN last.out ELSE [NoWindow EXCEPT !.open = TRUE, !.raw = raw[c], !.masters = masters[c]]

\* the calls that run at the same time are calls on the same control
SameControl(c) == \A u \in Threads : threads[u].pc = "idle" \/ threads[u].c = c

\* thread t is the only one inside a call
OnlyCall(t) == \A u \in Threads \ {t} : threads[u].pc = "idle"

AllIdle == \A u \in Threads : threads[u].pc = "idle"

\* one more call of the run
Call == ops < MaxOps /\ ops' = ops + 1

Step(c, W) == [NoLast EXCEPT !.op = "threads", !.c = c, !.out = W]

\* remove_master (m), or clear_masters () when m is NoControl, reads the user
\* value into new_val and old_val
DetachBegin(t, op, c, m) ==
  /\ Call
  /\ threads[t].pc = "idle"
  /\ alive[c]
  /\ SameControl(c)
  /\ ~deleting
  /\ \/ op = "remove_master" /\ m \in Controls /\ m > c /\ alive[m]
     \/ op = "clear_masters" /\ m = NoControl
  /\ threads' = [threads EXCEPT ![t] = [IdleThread EXCEPT !.pc = "read", !.op = op, !.c = c, !.m = m, !.val = get_double(Cur, c, FALSE), !.old = get_double(Cur, c, FALSE)]]
  /\ last' = Step(c, [Window(c) EXCEPT !.detaches = Append(@, <<op, m>>)])
  /\ UNCHANGED <<kind, raw, masters, playback, env, alive, deleting, masters_node, master_lock>>

\* the braces of remove_master or clear_masters: under the WriterLock new_val
\* is multiplied and the records are erased; the call returns from inside
\* when there was nothing to erase
DetachLocked(t) ==
  LET c == threads[t].c
      m == threads[t].m
      S1 == WriterLock(Cur, c)
      mi == IF threads[t].op = "remove_master" THEN Found(S1, c, m) ELSE S1.masters[c]
      new_val == IF mi = {} THEN threads[t].val
                 ELSE IF threads[t].op = "remove_master" THEN RMul(threads[t].val, master_ratio(S1, RecordOf(S1, c, m)))
                 ELSE RMul(threads[t].val, get_masters_value_locked(S1, c))
  IN /\ threads[t].pc = "read"
     /\ master_lock[c] = Unlocked
     /\ masters' = [masters EXCEPT ![c] = @ \ mi]
     /\ threads' = [threads EXCEPT ![t] = IF mi = {} THEN IdleThread ELSE [@ EXCEPT !.pc = "unlocked", !.val = new_val]]
     /\ last' = Step(c, [Window(c) EXCEPT !.open = ~(mi = {} /\ OnlyCall(t))])
     /\ UNCHANGED <<kind, raw, playback, env, alive, deleting, masters_node, master_lock, ops>>

\* after the braces: AutomationControl::set_double (new_val) if the value changed
DetachStore(t) ==
  LET c == threads[t].c
  IN /\ threads[t].pc = "unlocked"
     /\ raw' = IF threads[t].old # threads[t].val THEN AutomationControl_set_double(Cur, c, threads[t].val).raw ELSE raw
     /\ threads' = [threads EXCEPT ![t] = IdleThread]
     /\ last' = Step(c, [Window(c) EXCEPT !.open = ~OnlyCall(t)])
     /\ UNCHANGED <<kind, masters, playback, env, alive, deleting, masters_node, master_lock, ops>>

\* the braces of actually_set_value (value): under the WriterLock the value is
\* divided by the masters' value
SetLocked(t, c, value) ==
  /\ Call
  /\ threads[t].pc = "idle"
  /\ alive[c]
  /\ SameControl(c)
  /\ master_lock[c] = Unlocked
  /\ threads' = [threads EXCEPT ![t] = [IdleThread EXCEPT !.pc = "scaled", !.op = "actually_set_value", !.c = c, !.val = ScaledValue(Cur, c, value)]]
  /\ last' = Step(c, [Window(c) EXCEPT !.sets = Append(@, value)])
  /\ UNCHANGED <<kind, raw, masters, playback, env, alive, deleting, masters_node, master_lock>>

\* after the braces: AutomationControl::actually_set_value stores the value
SetStore(t) ==
  LET c == threads[t].c
  IN /\ threads[t].pc = "scaled"
     /\ raw' = AutomationControl_actually_set_value(Cur, c, threads[t].val).raw
     /\ threads' = [threads EXCEPT ![t] = IdleThread]
     /\ last' = Step(c, [Window(c) EXCEPT !.open = ~OnlyCall(t)])
     /\ UNCHANGED <<kind, masters, playback, env, alive, deleting, masters_node, master_lock, ops>>

\* get_value () of a thread while another thread is inside a call
GetValue(t, c) ==
  /\ Call
  /\ threads[t].pc = "idle"
  /\ alive[c]
  /\ ~AllIdle
  /\ SameControl(c)
  /\ ~master_lock[c].writer
  /\ last' = Step(c, [Window(c) EXCEPT !.seen = <<get_value(ReaderLock(Cur, c), c)>>])
  /\ UNCHANGED <<kind, raw, masters, playback, env, alive, deleting, masters_node, master_lock, threads>>

\* continuous controls; masters are attached and set between the calls
InitDetach ==
  /\ kind = [c \in Controls |-> "continuous"]
  /\ raw = [c \in Controls |-> One]
  /\ masters = [c \in Controls |-> {}]
  /\ playback = [c \in Controls |-> FALSE]
  /\ env = [c \in Controls |-> Half]
  /\ alive = [c \in Controls |-> TRUE]
  /\ deleting = FALSE
  /\ masters_node = [c \in Controls |-> NoNode]
  /\ master_lock = [c \in Controls |-> Unlocked]
  /\ last = NoLast
  /\ ops = 0
  /\ threads = [t \in Threads |-> IdleThread]

NextDetach ==
  \/ \E c \in Controls : \E v \in InputValues(c) : AllIdle /\ SetValue(c, v)
  \/ \E c \in Controls, m \in Controls : AllIdle /\ AddMaster(c, m)
  \/ \E t \in Threads, op \in {"remove_master", "clear_masters"}, c \in Controls, m \in Controls \cup {NoControl} : DetachBegin(t, op, c, m)
  \/ \E t \in Threads : DetachLocked(t)
  \/ \E t \in Threads : DetachStore(t)
  \/ \E t \in Threads, c \in Controls : \E v \in InputValues(c) : SetLocked(t, c, v)
  \/ \E t \in Threads : SetStore(t)
  \/ \E t \in Threads, c \in Controls : GetValue(t, c)

SpecDetach == InitDetach /\ [][NextDetach]_vars

\* ------------------------------------------------------------------ claims

\* the ratio a record contributes, from its master's composite value
RatioOf(r) == LET mv == get_value(Cur, r.master) IN IF IsZero(r.val_master) THEN mv ELSE RDiv(mv, r.val_master)

\* the product of the ratios of a set of records
ProductOfRatios(recs) == LET P[rs \in SUBSET recs] == IF rs = {} THEN One ELSE LET r == CHOOSE x \in rs : TRUE IN RMul(RatioOf(r), P[rs \ {r}]) IN P[recs]

\* C1: a continuous control that is not in envelope playback has the value raw
\* when it has no masters, and otherwise raw times the product of its masters'
\* ratios, each ratio taken from that master's own get_value ()
C1_ContinuousComposite ==
  \A c \in Controls : (Usable(Cur, c) /\ ~toggled(c) /\ ~playback[c]) =>
    get_value(Cur, c) = IF masters[c] = {} THEN raw[c] ELSE RMul(raw[c], ProductOfRatios(masters[c]))

\* a slave of a master that is itself slaved, the master's composite value
\* differing from the master's raw value
C1_Witness ==
  \E c \in Controls : Usable(Cur, c) /\ ~toggled(c) /\ ~playback[c] /\
    \E r \in masters[c] : masters[r.master] # {} /\ ~playback[r.master] /\ get_value(Cur, r.master) # raw[r.master] /\ get_value(Cur, c) # raw[c]

IsOn(c) == get_value(Cur, c) = upper(c)

\* C2: a toggled control that is not in envelope playback is on if and only if
\* its own raw value is on or one of its masters' get_value () is on
C2_ToggledOr ==
  \A c \in Controls : (Usable(Cur, c) /\ toggled(c) /\ ~playback[c]) =>
    (IsOn(c) <=> (~IsZero(raw[c]) \/ \E r \in masters[c] : ~IsZero(get_value(Cur, r.master))))

\* get_value () of control c before and after a step; the handlers leave the
\* kinds and the automation lists as they are
Value(c) == get_value(Cur, c)
After == [Cur EXCEPT !.raw = raw', !.masters = masters']
ValueAfter(c) == get_value(After, c)

\* remove_master (m) has just run on the continuous control c, which had m attached
Detached(c, m) == last'.op = "remove_master" /\ last'.c = c /\ last'.m = m /\ ~deleting /\ ~toggled(c) /\ Found(Cur, c, m) # {}

\* C3 as stated: get_value () is the same before and after remove_master (m),
\* the raw value having become old_raw * ratio (m)
C3_DetachContinuity_Original ==
  [][\A c \in Controls, m \in Controls : Detached(c, m) =>
       (ValueAfter(c) = Value(c) /\ raw'[c] = RMul(raw[c], RatioOf(RecordOf(Cur, c, m))))]_vars

\* C3, amended: the same for a control that is not in envelope playback; in
\* playback the raw value is still rescaled
C3_DetachContinuity ==
  [][\A c \in Controls, m \in Controls : Detached(c, m) =>
       ((~playback[c] => ValueAfter(c) = Value(c)) /\ raw'[c] = RMul(raw[c], RatioOf(RecordOf(Cur, c, m))))]_vars

\* a master with a ratio other than 1 has been detached from a continuous
\* control that is not in playback
C3_Witness ==
  /\ last.op = "remove_master" /\ last.c # NoControl
  /\ ~deleting /\ ~toggled(last.c) /\ ~playback[last.c]
  /\ last.status[last.c] = 1 /\ last.sets[last.c] = 1

\* clear_masters () has just run on the continuous control c
Cleared(c) == last'.op = "clear_masters" /\ last'.c = c /\ ~deleting /\ ~toggled(c)

\* what clear_masters () does apart from the value: the raw value is multiplied
\* by the product of the ratios, the registry is empty, MasterStatusChange is
\* emitted once; on an empty registry nothing changes and nothing is emitted
ClearEffects(c) ==
  IF masters[c] # {}
  THEN raw'[c] = RMul(raw[c], ProductOfRatios(masters[c])) /\ masters'[c] = {} /\ last'.status[c] = 1
  ELSE raw' = raw /\ masters' = masters /\ last'.status = NoCounts /\ last'.changed = NoCounts

\* C4 as stated: get_value () is the same before and after clear_masters ()
C4_ClearContinuity_Original ==
  [][\A c \in Controls : Cleared(c) => (ClearEffects(c) /\ ValueAfter(c) = Value(c))]_vars

\* C4, amended: the same for a control that is not in envelope playback
C4_ClearContinuity ==
  [][\A c \in Controls : Cleared(c) => (ClearEffects(c) /\ (~playback[c] => ValueAfter(c) = Value(c)))]_vars

\* two masters have been cleared from a continuous control that is not in
\* playback, and the raw value was rescaled
C4_Witness ==
  /\ last.op = "clear_masters" /\ last.c # NoControl
  /\ ~deleting /\ ~toggled(last.c) /\ ~playback[last.c]
  /\ last.status[last.c] = 1 /\ last.sets[last.c] = 1 /\ masters[last.c] = {}
  /\ raw[last.c] \notin {Zero, Half, One, Two}

\* add_master (m) has just run on control c, which had m attached already
Reattached(c, m) == last'.op = "add_master" /\ last'.c = c /\ last'.m = m /\ Found(Cur, c, m) # {}

OneRecordPerMaster == \A c \in Controls : \A r1 \in masters[c], r2 \in masters[c] : r1.master = r2.master => r1 = r2

\* C5 as stated: a registry never holds two records of one master, and
\* add_master (m) with m attached already leaves the registry and its records
\* as they are and emits no MasterStatusChange
C5_AttachIdempotence_Original ==
  /\ []OneRecordPerMaster
  /\ [][\A c \in Controls, m \in Controls : Reattached(c, m) => (masters' = masters /\ last'.status = NoCounts)]_vars

\* the registry of c with the cached boolean of m's record set to whether m is on
Refreshed(c, m) == {IF r.master = m THEN [r EXCEPT !.yn = ~IsZero(get_value(Cur, m))] ELSE r : r \in masters[c]}

\* C5, amended: the same, except that on a toggled control the cached boolean
\* of m's record is set to whether m's get_value () is on
C5_AttachIdempotence ==
  /\ []OneRecordPerMaster
  /\ [][\A c \in Controls, m \in Controls : Reattached(c, m) =>
         /\ last'.status = NoCounts
         /\ \A s \in Controls \ {c} : masters'[s] = masters[s]
         /\ masters'[c] = IF toggled(c) THEN Refreshed(c, m) ELSE masters[c]]_vars

\* an attached master has been attached again, to a control with two masters
C5_Witness ==
  /\ last.op = "add_master" /\ last.c # NoControl
  /\ last.status = NoCounts
  /\ Cardinality(masters[last.c]) = 2

\* use_saved_master_ratios () has just run on control c with a stashed node
Restored(c) == last'.op = "use_saved_master_ratios" /\ last'.c = c /\ masters_node[c] # NoNode

\* C6: when the stashed node is what get_state () wrote for a registry reg of
\* the same masters, every record has reg's serialised values afterwards: yn on
\* a toggled control, val_ctrl and val_master on a continuous one
C6_RoundTrip ==
  [][\A c \in Controls : Restored(c) =>
       \A reg \in DocRegistries(c, MasterIds(Cur, c)) :
         get_state([Cur EXCEPT !.masters[c] = reg], c) = <<masters_node[c]>> =>
           \A r \in masters'[c] : \E g \in reg :
             /\ g.master = r.master
             /\ IF toggled(c) THEN r.yn = g.yn ELSE r.val_ctrl = g.val_ctrl /\ r.val_master = g.val_master]_vars

\* the stashed values of two masters have been applied to a continuous control
\* whose masters are those of the document
C6_Witness ==
  /\ last.op = "use_saved_master_ratios" /\ last.c # NoControl
  /\ ~toggled(last.c) /\ last.applied[last.c] = 2 /\ Cardinality(masters[last.c]) = 2

\* C7: a pass of boolean_automation_run in which two cached booleans flip
\* makes the slave emit Changed exactly once; a pass in which none flips
\* makes it emit none
C7_SingleNotification ==
  (last.op = "boolean_automation_run" /\ last.c # NoControl) =>
    /\ last.flips[last.c] >= 2 => last.changed[last.c] = 1
    /\ last.flips = NoCounts => last.changed[last.c] = 0

\* C8: no registry holds a record whose master has been destroyed
C8_NoRecordOfDestroyedMaster ==
  \A c \in Controls : alive[c] => \A r \in masters[c] : alive[r.master]

\* actually_set_value (v) has just run on control c
ValueSet(c) == last'.op = "actually_set_value" /\ last'.c = c

\* the value handed to the base set path: v / r between lower and upper, 0
\* when r is 0, and v itself on a toggled control or without masters
BackSolved(c) ==
  LET r == get_masters_value_locked(Cur, c)
  IN IF ~toggled(c) /\ masters[c] # {}
     THEN last'.passed = IF IsZero(r) THEN Zero ELSE Clamp(c, RDiv(last'.v, r))
     ELSE last'.passed = last'.v

\* v / r lies between lower and upper
InRange(c) ==
  LET r == get_masters_value_locked(Cur, c)
  IN ~toggled(c) /\ masters[c] # {} /\ ~IsZero(r) /\ RLe(lower(c), RDiv(last'.v, r)) /\ RLe(RDiv(last'.v, r), upper(c))

\* C9 as stated: the back-solved value is handed on, and get_value () is v
\* afterwards when v / r is in range
C9_BackSolve_Original ==
  [][\A c \in Controls : ValueSet(c) => (BackSolved(c) /\ (InRange(c) => ValueAfter(c) = last'.v))]_vars

\* C9, amended: get_value () is v afterwards when the control is not in
\* envelope playback
C9_BackSolve ==
  [][\A c \in Controls : ValueSet(c) => (BackSolved(c) /\ ((InRange(c) /\ ~playback[c]) => ValueAfter(c) = last'.v))]_vars

\* a continuous control with a combined ratio other than 0 and 1 has been set,
\* and its raw value is not the value asked for
C9_Witness ==
  /\ last.op = "actually_set_value" /\ last.c # NoControl
  /\ ~toggled(last.c) /\ ~playback[last.c] /\ masters[last.c] # {}
  /\ Usable(Cur, last.c) /\ get_value(Cur, last.c) = last.v /\ raw[last.c] # last.v

\* C10: master_changed, called while the boolean aggregation pass holds the
\* slave's master_lock, returns without updating a record or emitting Changed
C10_ReentrantHandlerReturns ==
  last.op = "boolean_automation_run" => last.reentered = NoCounts

\* remove_master (m) has just run on control c, which had no record of m
DetachedUnknown(c, m) == last'.op = "remove_master" /\ last'.c = c /\ last'.m = m /\ Found(Cur, c, m) = {}

\* C12: remove_master (m) on a control that has no record of m leaves the
\* registries, the records and the raw values as they are and emits neither
\* MasterStatusChange nor Changed
C12_DetachUnknown ==
  [][\A c \in Controls, m \in Controls : DetachedUnknown(c, m) =>
       (masters' = masters /\ raw' = raw /\ last'.status = NoCounts /\ last'.changed = NoCounts /\ last'.sets = NoCounts)]_vars

\* a master that is not attached has been detached, outside teardown, from a
\* control that has another master
C12_Witness ==
  /\ last.op = "remove_master" /\ last.c # NoControl
  /\ last.hooks[last.c] = 1 /\ last.status = NoCounts
  /\ masters[last.c] # {} /\ Found(Cur, last.c, last.m) = {}

\* the node set_state () stashes: the last child named "masters", or the
\* node stashed before
RECURSIVE LastMasters(_, _)
LastMasters(nlist, old) == IF nlist = <<>> THEN old ELSE LastMasters(Tail(nlist), IF Head(nlist).name = "masters" THEN Head(nlist) ELSE old)

\* the entries of a node that name master m
EntriesOf(node, m) == {i \in DOMAIN node.children : "id" \in DOMAIN node.children[i] /\ StringToId(node.children[i].id) = m}

\* record r after the entry n has been applied to it
Applied(c, r, n) ==
  IF toggled(c) THEN [r EXCEPT !.yn = StringToBool(n.yn)]
  ELSE [r EXCEPT !.val_ctrl = StringToDouble(n.val_ctrl), !.val_master = StringToDouble(n.val_master)]

\* C13: set_state () only stashes the masters node; use_saved_master_ratios ()
\* applies every entry whose id names an attached master to that master's
\* record, leaves the other records and the membership as they are, and
\* empties the stash, so that running it again changes nothing
C13_DeferredLoad ==
  [][\A c \in Controls :
       /\ (last'.op = "set_state" /\ last'.c = c) =>
            (masters' = masters /\ masters_node'[c] = LastMasters(last'.doc, masters_node[c]))
       /\ (last'.op = "use_saved_master_ratios" /\ last'.c = c) =>
            /\ masters_node'[c] = NoNode
            /\ \A s \in Controls \ {c} : masters'[s] = masters[s]
            /\ IF masters_node[c] = NoNode THEN masters'[c] = masters[c]
               ELSE masters'[c] = {IF EntriesOf(masters_node[c], r.master) = {} THEN r
                                   ELSE Applied(c, r, masters_node[c].children[CHOOSE i \in EntriesOf(masters_node[c], r.master) : TRUE]) : r \in masters[c]}]_vars

\* a stashed node has been applied to the only record of a control, another
\* control being there that is not its master, and the stash is empty
C13_Witness ==
  /\ last.op = "use_saved_master_ratios" /\ last.c # NoControl
  /\ last.applied[last.c] = 1 /\ Cardinality(masters[last.c]) = 1
  /\ masters_node[last.c] = NoNode
  /\ \E m \in Controls : masters[m] = {} /\ alive[m] /\ m > last.c /\ Found(Cur, last.c, m) = {}

\* C14: while the session is being deleted, remove_master (m), clear_masters ()
\* and the handler of a master's DropReferences leave the raw values as they
\* are, call no pre_remove_master and emit neither MasterStatusChange nor Changed
C14_TeardownSuppression ==
  [][(deleting /\ last'.op \in {"remove_master", "clear_masters", "drop_references"}) =>
       (raw' = raw /\ last'.hooks = NoCounts /\ last'.status = NoCounts /\ last'.changed = NoCounts /\ last'.sets = NoCounts)]_vars

\* during teardown remove_master (m) has run on a control that holds a
\* record of m whose ratio is not 1
C14_Witness ==
  /\ deleting /\ last.op = "remove_master" /\ last.c # NoControl
  /\ alive[last.m] /\ Usable(Cur, last.c) /\ ~toggled(last.c)
  /\ Found(Cur, last.c, last.m) # {} /\ master_ratio(Cur, RecordOf(Cur, last.c, last.m)) # One

\* add_master (m) has just run on control c and has inserted a record
Attached(c, m) == last'.op = "add_master" /\ last'.c = c /\ last'.m = m /\ Found(Cur, c, m) = {}

\* C15 as stated: the new record's val_ctrl is the control's raw value and its
\* val_master is m's raw value
C15_AttachSnapshots_Original ==
  [][\A c \in Controls, m \in Controls : Attached(c, m) =>
       \E r \in masters'[c] : r.master = m /\ r.val_ctrl = raw[c] /\ r.val_master = raw[m]]_vars

\* C15, amended: val_ctrl is the control's value with the masters it has
\* already (get_value_locked ()), val_master is m's get_value (); they are the
\* raw values when the control has no master yet and m has none and is not in
\* envelope playback
C15_AttachSnapshots ==
  [][\A c \in Controls, m \in Controls : Attached(c, m) =>
       \E r \in masters'[c] :
         /\ r.master = m
         /\ r.val_ctrl = (IF masters[c] = {} THEN raw[c] ELSE IF toggled(c) THEN (IF ~IsZero(raw[c]) THEN upper(c) ELSE Zero) ELSE RMul(raw[c], ProductOfRatios(masters[c])))
         /\ r.val_master = Value(m)
         /\ (masters[c] = {} /\ masters[m] = {} /\ ~playback[m]) => (r.val_ctrl = raw[c] /\ r.val_master = raw[m])]_vars

\* a second master, itself slaved, has been attached to a continuous control,
\* and neither snapshot is the raw value
C15_Witness ==
  /\ last.op = "add_master" /\ last.c # NoControl /\ last.status[last.c] = 1
  /\ ~toggled(last.c) /\ Cardinality(masters[last.c]) = 2 /\ masters[last.m] # {}
  /\ \E r \in masters[last.c] : r.master = last.m /\ r.val_ctrl # raw[last.c] /\ r.val_master # raw[last.m]

\* C16: the raw value of every control is between lower and upper
C16_RawWithinBounds ==
  \A c \in Controls : alive[c] => (RLe(lower(c), raw[c]) /\ RLe(raw[c], upper(c)))

\* the envelopes that can be valid at start when boolean_automation_run runs on c
ValidSets(c) == SUBSET {m \in Controls : m > c /\ playback[m]}

\* m's Changed can only come from c's own pass: m has no masters and is no
\* master of another master of c, whose nested pass would emit it as well
OnlyBy(c, m) == masters[m] = {} /\ \A r \in masters[c] : Found(Cur, r.master, m) = {}

\* what C20 says of one record r of c after a pass that leaves the state T
RecordAfterPass(c, r, valid, T) ==
  LET m == r.master
      yn == RLe(Half, env[m])
      r2 == RecordOf(T, c, m)
  IN IF toggled(m) /\ playback[m] /\ m \in valid
     THEN /\ r2.yn = yn
          /\ (r.yn # yn) => (T.raw[m] = (IF yn THEN One ELSE Zero) /\ T.changed[m] >= 1 /\ (OnlyBy(c, m) => T.changed[m] = 1))
          /\ (r.yn = yn /\ OnlyBy(c, m)) => T.changed[m] = 0
     ELSE r2 = r /\ (OnlyBy(c, m) => T.changed[m] = 0)

\* C20: boolean_automation_run_locked returns false and changes nothing on a
\* control that is not toggled; on a toggled control the cached boolean of
\* every toggled master in playback with a valid envelope becomes
\* envelope >= 0.5, a flip sets the master's value to 1 or 0 and emits the
\* master's Changed once, the other records stay as they are, and the result
\* is true only if a cached boolean has flipped
C20_BooleanRunLocked ==
  \A c \in Controls : Usable(Cur, c) => \A valid \in ValidSets(c) :
    LET res == boolean_automation_run_locked(ReaderLock(Cur, c), c, valid)
    IN IF ~toggled(c)
       THEN ~res.rv /\ res.S.raw = raw /\ res.S.masters = masters /\ res.S.changed = NoCounts
       ELSE /\ MasterIds(res.S, c) = MasterIds(Cur, c)
            /\ \A r \in masters[c] : RecordAfterPass(c, r, valid, res.S)
            /\ res.rv => res.S.flips # NoCounts

\* masters_curve_multiply has just run on control c and has returned
Composed == last.op = "masters_curve_multiply" /\ last.out.res.abort = "none"

\* the curve of c or of a master reachable from c was evaluated
RECURSIVE AnyCurveActive(_, _)
AnyCurveActive(c, active) == c \in active \/ \E r \in masters[c] : AnyCurveActive(r.master, active)

\* C17: masters_curve_multiply returns true if and only if the control's own
\* curve or the curve of a master of its chain was evaluated
C17_CurveActive ==
  Composed => (last.out.res.rv <=> AnyCurveActive(last.c, last.out.active))

\* the call has returned true because of the curve of a master's master only
C17_Witness ==
  /\ Composed /\ last.out.res.rv /\ last.c \notin last.out.active
  /\ \A r \in masters[last.c] : r.master \notin last.out.active
  /\ \E r \in masters[last.c] : \E q \in masters[r.master] : q.master \in last.out.active

\* what control c contributes to sample i: its curve sample or its raw value,
\* and for every master that master's contribution and its ratio
RECURSIVE Contribution(_, _, _)
RECURSIVE ContributionOf(_, _, _)
ContributionOf(recs, i, active) ==
  IF recs = {} THEN One
  ELSE LET r == CHOOSE x \in recs : TRUE
       IN RMul(RMul(Contribution(r.master, i, active), RatioOf(r)), ContributionOf(recs \ {r}, i, active))
Contribution(c, i, active) == RMul(IF c \in active THEN CurveOf(c)[i] ELSE raw[c], ContributionOf(masters[c], i, active))

\* C18: every sample of the first veclen is its input times the control's
\* contribution, the others are as they were
C18_CurveProduct ==
  Composed =>
    \A i \in 1..BufLen :
      last.out.res.vec[i] = IF i <= last.out.veclen THEN RMul(last.out.vec[i], Contribution(last.c, i, last.out.active)) ELSE last.out.vec[i]

\* a buffer longer than veclen has been composed for a control with an active
\* curve and two masters, one of them slaved itself and with a ratio other than 1
C18_Witness ==
  /\ Composed /\ last.out.veclen < BufLen /\ last.c \in last.out.active
  /\ Cardinality(masters[last.c]) = 2
  /\ \E r \in masters[last.c] : masters[r.master] # {} /\ RatioOf(r) # One

\* the buffer with the ratios of the masters that are not slave-capable applied
\* and the contributions of the others
RECURSIVE Skipping(_, _, _)
RECURSIVE SkippingOf(_, _, _)
SkippingOf(recs, i, active) ==
  IF recs = {} THEN One
  ELSE LET r == CHOOSE x \in recs : TRUE
       IN RMul(RMul(IF slavable(r.master) THEN Skipping(r.master, i, active) ELSE One, RatioOf(r)), SkippingOf(recs \ {r}, i, active))
Skipping(c, i, active) == RMul(IF c \in active THEN CurveOf(c)[i] ELSE raw[c], SkippingOf(masters[c], i, active))

\* C19: masters_curve_multiply completes whatever the masters are; a master
\* that is no SlavableAutomationControl is not recursed into and its ratio is
\* applied
C19_RecursionOnlyIfSlavable ==
  last.op = "masters_curve_multiply" =>
    /\ last.out.res.abort = "none"
    /\ \A i \in 1..last.out.veclen : last.out.res.vec[i] = RMul(last.out.vec[i], Skipping(last.c, i, last.out.active))

\* two threads are in the middle of an access to the same record of the same
\* control, or one of them is changing the registry the record is in
SameRecord(t1, t2) ==
  /\ t1 # t2
  /\ threads[t1].pc = "access" /\ threads[t2].pc = "access"
  /\ threads[t1].c = threads[t2].c
  /\ threads[t1].m = threads[t2].m \/ threads[t1].op \in {"add_master", "remove_master"} \/ threads[t2].op \in {"add_master", "remove_master"}

\* C11: no thread writes a record while another thread reads or writes it
C11_RecordExclusion ==
  \A t1 \in Threads, t2 \in Threads : SameRecord(t1, t2) => (threads[t1].mode = "read" /\ threads[t2].mode = "read")

\* the state a window began in
WindowState(W, c) == [Cur EXCEPT !.raw[c] = W.raw, !.masters[c] = W.masters]

\* the detach of a window run alone, from state S
DetachAlone(S, c, d) == IF d[1] = "remove_master" THEN remove_master(S, c, d[2]) ELSE clear_masters(S, c)

\* the user values the control can end with when the one detach and the one
\* set of a window run one after the other, in either order
SerialOutcomes(W, c) ==
  LET S0 == WindowState(W, c)
      d == W.detaches[1]
      v == W.sets[1]
  IN {actually_set_value(DetachAlone(S0, c, d), c, v).raw[c], DetachAlone(actually_set_value(S0, c, v), c, d).raw[c]}

\* get_value () returned, while one detach and no set ran, the value of the
\* control before that detach or after it
SeenBeforeOrAfter ==
  (last.op = "threads" /\ Len(last.out.detaches) = 1 /\ last.out.sets = <<>> /\ last.out.seen # <<>>) =>
    LET S0 == WindowState(last.out, last.c)
    IN last.out.seen[1] \in {get_value(S0, last.c), get_value(DetachAlone(S0, last.c, last.out.detaches[1]), last.c)}

\* one detach and one set that ran at the same time leave the user value that
\* one of their two serial orders leaves
SerialisableWithSet ==
  (last.op = "threads" /\ ~last.out.open /\ Len(last.out.detaches) = 1 /\ Len(last.out.sets) = 1) =>
    raw[last.c] \in SerialOutcomes(last.out, last.c)

\* C21: remove_master and clear_masters are atomic for get_value and
\* actually_set_value of another thread on the same continuous control: a
\* get_value during the detach returns the value before or after the detach,
\* and a detach and a set that overlap end with the user value of one of their
\* serial orders
C21_DetachAtomic ==
  SeenBeforeOrAfter /\ SerialisableWithSet

====
